---- MODULE Spec2Model ----
(***************************************************************************)
(* Model of the news client's request / cache / deduplication layer        *)
(* (services/newsService.js), the debounce hooks (hooks/useDebounce.js)    *)
(* and the aggregation hook (hooks/useOptimizedNews.js).                   *)
(*                                                                         *)
(* Strings are sequences of one-character strings, so that toLowerCase,    *)
(* trim and the template literal of _generateCacheKey are computed and not *)
(* assumed.  The JavaScript value null is the one-element sequence Null,   *)
(* whose element is not a character.                                       *)
(***************************************************************************)
EXTENDS Integers, Sequences, FiniteSets, TLC

\* ------------------------------------------------------------------------
\* Bounds of the model
\* ------------------------------------------------------------------------
MaxCalls == 3          \* fetchNews calls made on the shared service
MaxTicks == 2          \* advances of Date.now()
MaxCatLen == 2         \* longest category string of the key check
MaxQueryLen == 1       \* longest query string of the key check

\* ------------------------------------------------------------------------
\* Strings
\* ------------------------------------------------------------------------
Null == <<"null">>

\* category names of the page
All == <<"A", "l", "l">>
Sports == <<"S", "p", "o", "r", "t", "s">>

Chars == {"a", "A", "-", " "}

toLowerCaseChar(c) ==
    CASE c = "A" -> "a"
      [] c = "S" -> "s"
      [] OTHER -> c

toLowerCase(s) == [i \in 1..Len(s) |-> toLowerCaseChar(s[i])]

isWhitespace(c) == c = " "

RECURSIVE trimStart(_)
trimStart(s) ==
    IF s # <<>> /\ isWhitespace(Head(s)) THEN trimStart(Tail(s)) ELSE s

RECURSIVE trimEnd(_)
trimEnd(s) ==
    IF s # <<>> /\ isWhitespace(s[Len(s)])
    THEN trimEnd(SubSeq(s, 1, Len(s) - 1))
    ELSE s

trim(s) == trimEnd(trimStart(s))

StringsUpTo(alphabet, n) == UNION {[1..k -> alphabet] : k \in 0..n}

\* ------------------------------------------------------------------------
\* NewsService: pure helpers
\* ------------------------------------------------------------------------
cacheTimeout == 15 * 60 * 1000

\* `${category.toLowerCase()}-${query.toLowerCase().trim()}`
generateCacheKeyBuggyNoLower(category, query) ==
    category \o <<"-">> \o trim(toLowerCase(query))

generateCacheKey(category, query) ==
    toLowerCase(category) \o <<"-">> \o trim(toLowerCase(query))

\* a property access on null throws a TypeError
generateCacheKeyThrows(category, query) == category = Null \/ query = Null

isCacheValidBuggyInclusive(cacheMap, key, t) ==
    /\ key \in DOMAIN cacheMap
    /\ t - cacheMap[key].timestamp <= cacheTimeout

isCacheValid(cacheMap, key, t) ==
    /\ key \in DOMAIN cacheMap
    /\ t - cacheMap[key].timestamp < cacheTimeout

MapRemove(m, k) == [x \in DOMAIN m \ {k} |-> m[x]]

MapPut(m, k, v) == [x \in DOMAIN m \cup {k} |-> IF x = k THEN v ELSE m[x]]

EmptyMap == [x \in {} |-> 0]

\* _getFromCache: the cache map after the read (an expired entry is deleted)
getFromCacheMap(cacheMap, key, t) ==
    IF isCacheValid(cacheMap, key, t) THEN cacheMap
    ELSE IF key \in DOMAIN cacheMap THEN MapRemove(cacheMap, key)
    ELSE cacheMap

\* _getFromCache: the value returned when the entry is valid
getFromCacheValue(cacheMap, key) ==
    [articles |-> cacheMap[key].data.articles, fromCache |-> "true"]

setCache(cacheMap, key, data, t) ==
    MapPut(cacheMap, key,
           [data |-> [articles |-> data.articles, fromCache |-> "false"],
            timestamp |-> t])

cleanupCache(cacheMap, t) ==
    [k \in {x \in DOMAIN cacheMap : ~(t - cacheMap[x].timestamp >= cacheTimeout)}
        |-> cacheMap[k]]

\* ------------------------------------------------------------------------
\* State
\* ------------------------------------------------------------------------
VARIABLES
    now,              \* Date.now(), in milliseconds
    ticks,            \* how often the clock has advanced
    cache,            \* NewsService.cache: key -> [data, timestamp]
    ongoingRequests,  \* NewsService.ongoingRequests: key -> request
    requests,         \* the promises of _performRequest, in creation order
    calls,            \* the promises returned by fetchNews, in call order
    lastRead,         \* the last direct _getFromCache call and its result
    keyIn,            \* key check: the two (category, query) pairs
    keyOut,           \* key check: their keys
    upstream,         \* key check: the parameters of their upstream requests
    errIn,            \* error check: a message, or a failure of the request
    errOut,           \* error check: the message thrown and its error kind
    debounce,         \* one mounted useDebounce(value, delay)
    search,           \* one mounted useDebouncedSearch(searchTerm, delay)
    events,           \* the input changes and output changes, in order
    hook,             \* one mounted useOptimizedNews: its state and refs
    fetches,          \* the hook's fetchNews calls that await the service
    timers            \* the pending setTimeout callbacks of handleRetry

svcVars == <<now, ticks, cache, ongoingRequests, requests, calls, lastRead>>
keyVars == <<keyIn, keyOut, upstream, errIn, errOut>>
debVars == <<debounce, search, events>>
hookVars == <<hook, fetches, timers>>
vars == <<svcVars, keyVars, debVars, hookVars>>

\* ------------------------------------------------------------------------
\* NewsService.fetchNews
\* ------------------------------------------------------------------------
\* the value a request resolves with: data.data of the response, n articles
responseData(r, n) ==
    [articles |-> [i \in 1..n |-> <<r, i>>], fromCache |-> "undefined"]

newRequest(category, query, key, useCache) ==
    [category |-> category, query |-> query, key |-> key,
     useCache |-> useCache, status |-> "pending",
     data |-> responseData(0, 0), error |-> <<>>]

\* The synchronous part of fetchNews, up to its first await.  The result
\* gives the service's state afterwards and what the returned promise is:
\*   via = "throw"  rejected with the TypeError of _generateCacheKey
\*   via = "cache"  resolved with the cached value
\*   via = "join"   the promise of the ongoing request req
\*   via = "own"    awaits the request req that this call created
fetchNewsJoinBuggyNoDedup(ongoing, key) == FALSE

fetchNewsJoin(ongoing, key) == key \in DOMAIN ongoing

fetchNews(cacheMap, ongoing, reqs, category, query, useCache, t) ==
    LET swept == cleanupCache(cacheMap, t)
        key == generateCacheKey(category, query)
        afterRead == getFromCacheMap(swept, key, t)
        base == [cache |-> swept, ongoingRequests |-> ongoing,
                 requests |-> reqs, key |-> <<>>, req |-> 0,
                 via |-> "", value |-> responseData(0, 0)]
    IN  IF generateCacheKeyThrows(category, query)
        THEN [base EXCEPT !.via = "throw"]
        ELSE IF useCache /\ isCacheValid(swept, key, t)
        THEN [base EXCEPT !.via = "cache", !.key = key,
                          !.value = getFromCacheValue(swept, key)]
        ELSE IF fetchNewsJoin(ongoing, key)
        THEN [base EXCEPT !.via = "join", !.key = key,
                          !.cache = IF useCache THEN afterRead ELSE swept,
                          !.req = ongoing[key]]
        ELSE [base EXCEPT !.via = "own", !.key = key,
                          !.cache = IF useCache THEN afterRead ELSE swept,
                          !.req = Len(reqs) + 1,
                          !.requests = Append(reqs,
                                newRequest(category, query, key, useCache)),
                          !.ongoingRequests =
                                MapPut(ongoing, key, Len(reqs) + 1)]

\* ------------------------------------------------------------------------
\* NewsService._performRequest: how a request fails
\* ------------------------------------------------------------------------
\* what the upstream does to a request: an HTTP status without a message
\* in the body, a transport failure (fetch rejects with a TypeError), or a
\* 200 response whose payload says success: false without a message
\* A message is the sequence of its fragments, cut so that each pattern
\* getErrorType looks for is a fragment of its own.
\* String.prototype.includes on a message given as its fragments
includes(message, pattern) == \E i \in 1..Len(message) : message[i] = pattern

\* the catch of _performRequest for what fetch itself threw: a TypeError
\* with the message the browser gives it
transportError(message) ==
    IF includes(message, "fetch")
    THEN <<"Unable to connect",
           " to backend service. Please check if the backend is running.">>
    ELSE message

\* the message of the Error _performRequest throws; the transport failures
\* are a TypeError "Failed to fetch" (Chromium) and "Load failed" (WebKit)
performRequestError(outcome) ==
    CASE outcome = "401" ->
           <<"Backend API ", "authentication failed",
             ". Please check NewsAPI configuration.">>
      [] outcome = "429" ->
           <<"Rate limit exceeded", ". Please try again later.">>
      [] outcome = "500" ->
           <<"Backend service is ", "temporarily unavailable",
             ". Please try again later.">>
      [] outcome = "502" ->
           <<"Backend service is ", "temporarily unavailable",
             ". Please try again later.">>
      [] outcome = "503" ->
           <<"Backend service is ", "temporarily unavailable",
             ". Please try again later.">>
      [] outcome = "404" -> <<"HTTP error! status: ", "404">>
      [] outcome = "transport" -> transportError(<<"Failed to ", "fetch">>)
      [] outcome = "transportLoad" -> transportError(<<"Load failed">>)
      [] OTHER -> <<"Failed to ", "fetch", " news">>

\* the failures the upstream of the service model produces
ServiceFailures == {"429"}

\* the continuation of the call that created request r, when r settles:
\* a successful result is cached if that call used the cache, and the
\* registration of the key is deleted in the finally block
settleCachesBuggyAlways(useCache, ok) == TRUE

settleCachesBuggyIgnoresFlag(useCache, ok) == ok

settleCaches(useCache, ok) == useCache /\ ok

settleRequest(cacheMap, ongoing, reqs, r, ok, data, err, t) ==
    [cache |-> IF settleCaches(reqs[r].useCache, ok)
               THEN setCache(cacheMap, reqs[r].key, data, t)
               ELSE cacheMap,
     ongoingRequests |-> MapRemove(ongoing, reqs[r].key),
     requests |-> [reqs EXCEPT ![r].status = IF ok THEN "ok" ELSE "err",
                               ![r].data = data,
                               ![r].error = err]]

clearCacheOngoingBuggyKeeps(ongoing) == ongoing

clearCacheOngoing(ongoing) == EmptyMap

\* ------------------------------------------------------------------------
\* hooks/useDebounce.js
\* ------------------------------------------------------------------------
\* Timers are setTimeout handles: due is the time the callback runs, -1 when
\* no callback is pending.  The clock never passes a pending timer: its
\* callback runs at the time it is due.
NoHandler == [due |-> -1, value |-> <<>>]

DebounceDelay == 300

\* useDebounce: the effect on [value, delay] (the cleanup of the previous
\* run clears its timer, then a new timer is set)
useDebounceEffectBuggyKeepsTimer(d, t) ==
    [d EXCEPT !.handler = IF d.handler.due >= 0 THEN d.handler
                          ELSE [due |-> t + DebounceDelay, value |-> d.value]]

useDebounceEffect(d, t) ==
    [d EXCEPT !.handler = [due |-> t + DebounceDelay, value |-> d.value]]

\* useDebounce: the timer callback, setDebouncedValue(value)
useDebounceHandler(d) ==
    [d EXCEPT !.debouncedValue = d.handler.value, !.handler = NoHandler]

\* useDebounce: a render with a new value
useDebounceRender(d, v, t) ==
    IF v = d.value THEN d ELSE useDebounceEffect([d EXCEPT !.value = v], t)

\* useDebouncedSearch: the effect on [searchTerm, delay, debouncedSearchTerm]
useDebouncedSearchEffect(s, t) ==
    [s EXCEPT !.isSearching = IF s.searchTerm # s.debouncedSearchTerm
                              THEN TRUE ELSE s.isSearching,
              !.handler = [due |-> t + DebounceDelay, value |-> s.searchTerm]]

\* useDebouncedSearch: the timer callback; the effect runs again when the
\* debounced term, one of its dependencies, has changed
useDebouncedSearchHandler(s, t) ==
    LET fired == [s EXCEPT !.debouncedSearchTerm = s.handler.value,
                           !.isSearching = FALSE,
                           !.handler = NoHandler]
    IN  IF fired.debouncedSearchTerm # s.debouncedSearchTerm
        THEN useDebouncedSearchEffect(fired, t)
        ELSE fired

\* useDebouncedSearch: a render with a new search term
useDebouncedSearchRender(s, v, t) ==
    IF v = s.searchTerm THEN s
    ELSE useDebouncedSearchEffect([s EXCEPT !.searchTerm = v], t)

InitHookIdle ==
    /\ hook = [mounted |-> FALSE]
    /\ fetches = <<>>
    /\ timers = {}

\* the (category, query) pairs the callers pass
ServiceParams ==
    { <<<<"A">>, <<>>>>,          \* key "a-"
      <<<<"a", "-">>, <<>>>>,     \* key "a--"
      <<<<"a">>, <<"-">>>>,       \* key "a--", a different normalized pair
      <<Null, Null>> }            \* fetchNews() without arguments

\* the pair the callers of the clock model pass
TimedParams == { <<<<"A">>, <<>>>> }

ArticleCounts == {1}

\* the clock advances to just before, or by one millisecond onto, the expiry
ClockSteps == {cacheTimeout - 1, 1}

NoRead == [key |-> <<>>, at |-> -1, entryTs |-> -1, entryArticles |-> <<>>,
           hit |-> FALSE, value |-> responseData(0, 0)]

\* what the cache held for a key when a call was made (-1: no entry)
entryTimestamp(cacheMap, key) ==
    IF key \in DOMAIN cacheMap THEN cacheMap[key].timestamp ELSE -1

entryArticles(cacheMap, key) ==
    IF key \in DOMAIN cacheMap THEN cacheMap[key].data.articles ELSE <<>>

\* the earlier calls with the same (category, query) that have not settled
pendingSame(category, query) ==
    {i \in 1..Len(calls) : /\ calls[i].state = "pending"
                           /\ calls[i].category = category
                           /\ calls[i].query = query}

InitService ==
    /\ now = 0
    /\ ticks = 0
    /\ cache = EmptyMap
    /\ ongoingRequests = EmptyMap
    /\ requests = <<>>
    /\ calls = <<>>
    /\ lastRead = NoRead

InitKeyIdle ==
    /\ keyIn = <<>>
    /\ keyOut = <<>>
    /\ upstream = <<>>
    /\ errIn = <<>>
    /\ errOut = <<>>

CallFetchNews(category, query, useCache) ==
    /\ Len(calls) < MaxCalls
    /\ LET f == fetchNews(cache, ongoingRequests, requests,
                          category, query, useCache, now)
       IN  /\ cache' = f.cache
           /\ ongoingRequests' = f.ongoingRequests
           /\ requests' = f.requests
           /\ calls' = Append(calls,
                [category |-> category, query |-> query,
                 useCache |-> useCache, key |-> f.key, via |-> f.via,
                 req |-> f.req, at |-> now,
                 entryTs |-> IF f.via = "throw" THEN -1
                             ELSE entryTimestamp(cache, f.key),
                 entryArticles |-> IF f.via = "throw" THEN <<>>
                                   ELSE entryArticles(cache, f.key),
                 pendingSame |-> pendingSame(category, query),
                 state |-> CASE f.via = "throw" -> "rejected"
                             [] f.via = "cache" -> "resolved"
                             [] OTHER -> "pending",
                 value |-> f.value,
                 error |-> IF f.via = "throw" THEN <<"TypeError">> ELSE <<>>])
    /\ UNCHANGED <<now, ticks, lastRead, keyVars, debVars, hookVars>>

Settle(r, ok, data, err) ==
    /\ r \in 1..Len(requests)
    /\ requests[r].status = "pending"
    /\ LET s == settleRequest(cache, ongoingRequests, requests,
                              r, ok, data, err, now)
       IN  /\ cache' = s.cache
           /\ ongoingRequests' = s.ongoingRequests
           /\ requests' = s.requests
    /\ calls' = [i \in 1..Len(calls) |->
                   IF calls[i].state = "pending" /\ calls[i].req = r
                   THEN [calls[i] EXCEPT
                           !.state = IF ok THEN "resolved" ELSE "rejected",
                           !.value = data, !.error = err]
                   ELSE calls[i]]
    /\ UNCHANGED <<now, ticks, lastRead, keyVars, debVars, hookVars>>

SettleOk == \E r \in 1..Len(requests), n \in ArticleCounts :
    Settle(r, TRUE, responseData(r, n), <<>>)

SettleErr == \E r \in 1..Len(requests), o \in ServiceFailures :
    Settle(r, FALSE, responseData(0, 0), performRequestError(o))

ClearCache ==
    /\ cache # EmptyMap \/ ongoingRequests # EmptyMap
    /\ cache' = EmptyMap
    /\ ongoingRequests' = clearCacheOngoing(ongoingRequests)
    /\ UNCHANGED <<now, ticks, requests, calls, lastRead, keyVars, debVars, hookVars>>

ClearCacheFor == \E p \in ServiceParams :
    /\ ~generateCacheKeyThrows(p[1], p[2])
    /\ generateCacheKey(p[1], p[2]) \in DOMAIN cache
    /\ cache' = MapRemove(cache, generateCacheKey(p[1], p[2]))
    /\ UNCHANGED <<now, ticks, ongoingRequests, requests, calls, lastRead, keyVars, debVars, hookVars>>

Tick == \E d \in ClockSteps :
    /\ ticks < MaxTicks
    /\ now' = now + d
    /\ ticks' = ticks + 1
    /\ UNCHANGED <<cache, ongoingRequests, requests, calls, lastRead, keyVars, debVars, hookVars>>

\* a direct call of _getFromCache(cacheKey), as getCachedDataIfAvailable makes
GetFromCache == \E p \in TimedParams :
    LET key == generateCacheKey(p[1], p[2])
    IN  /\ key \in DOMAIN cache
        /\ lastRead' = [key |-> key, at |-> now,
                        entryTs |-> cache[key].timestamp,
                        entryArticles |-> cache[key].data.articles,
                        hit |-> isCacheValid(cache, key, now),
                        value |-> IF isCacheValid(cache, key, now)
                                  THEN getFromCacheValue(cache, key)
                                  ELSE responseData(0, 0)]
        /\ cache' = getFromCacheMap(cache, key, now)
        /\ UNCHANGED <<now, ticks, ongoingRequests, requests, calls, keyVars, debVars, hookVars>>

FetchNewsCall == \E p \in ServiceParams, useCache \in BOOLEAN :
    CallFetchNews(p[1], p[2], useCache)

FetchNewsTimed == \E p \in TimedParams, useCache \in BOOLEAN :
    CallFetchNews(p[1], p[2], useCache)

\* ------------------------------------------------------------------------
\* The debounce hooks and their timers
\* ------------------------------------------------------------------------
MaxInputs == 3            \* input changes of one mounted hook
MaxDebounceTime == 500    \* the clock of the debounce models stops here

DebounceValues == {"v0", "v1", "v2", "v3"}
SearchTerms == {<<>>, <<"a">>, <<"-">>}
DebounceSteps == {50, 100}

Unmounted == [mounted |-> FALSE]

\* the first render and the first run of the effect, at time 0
MountDebounce(v) ==
    useDebounceEffect([mounted |-> TRUE, value |-> v, debouncedValue |-> v,
                       handler |-> NoHandler], 0)

MountSearch(v) ==
    useDebouncedSearchEffect(
        [mounted |-> TRUE, searchTerm |-> v, debouncedSearchTerm |-> v,
         isSearching |-> FALSE, handler |-> NoHandler], 0)

InitDebounceIdle ==
    /\ debounce = Unmounted
    /\ search = Unmounted
    /\ events = <<>>

inputCount == Cardinality({i \in 1..Len(events) : events[i].kind = "in"})

\* the next time a callback of the mounted hooks is due (-1: none)
debounceDue ==
    IF debounce.mounted THEN debounce.handler.due
    ELSE IF search.mounted THEN search.handler.due
    ELSE -1

\* the clock advances, but not past a pending timer
Advance ==
    /\ debounce.mounted \/ search.mounted
    /\ \E d \in DebounceSteps \cup {debounceDue - now} :
          /\ d > 0
          /\ now + d <= MaxDebounceTime
          /\ debounceDue >= 0 => now + d <= debounceDue
          /\ now' = now + d
    /\ UNCHANGED <<ticks, cache, ongoingRequests, requests, calls, lastRead,
                   keyVars, debVars, hookVars>>

DebounceChange ==
    /\ debounce.mounted
    /\ inputCount < MaxInputs
    /\ \E v \in DebounceValues \ {debounce.value} :
          /\ debounce' = useDebounceRender(debounce, v, now)
          /\ events' = Append(events, [kind |-> "in", t |-> now, v |-> v])
    /\ UNCHANGED <<svcVars, keyVars, search, hookVars>>

DebounceTimer ==
    /\ debounce.mounted
    /\ debounce.handler.due = now
    /\ debounce' = useDebounceHandler(debounce)
    /\ events' = IF debounce'.debouncedValue # debounce.debouncedValue
                 THEN Append(events, [kind |-> "out", t |-> now,
                                      v |-> debounce'.debouncedValue])
                 ELSE events
    /\ UNCHANGED <<svcVars, keyVars, search, hookVars>>

\* unmount: the cleanup of the effect clears the timer
DebounceUnmount ==
    /\ debounce.mounted
    /\ debounce.handler.due >= 0
    /\ debounce' = [debounce EXCEPT !.mounted = FALSE, !.handler = NoHandler]
    /\ UNCHANGED <<svcVars, keyVars, search, events, hookVars>>

InitDebounce ==
    /\ InitService
    /\ InitKeyIdle
    /\ InitHookIdle
    /\ debounce = MountDebounce("v0")
    /\ search = Unmounted
    /\ events = <<>>

NextDebounce ==
    \/ DebounceChange
    \/ DebounceTimer
    \/ DebounceUnmount
    \/ Advance

SpecDebounce == InitDebounce /\ [][NextDebounce]_vars

SearchChange ==
    /\ search.mounted
    /\ inputCount < MaxInputs
    /\ \E v \in SearchTerms \ {search.searchTerm} :
          /\ search' = useDebouncedSearchRender(search, v, now)
          /\ events' = Append(events, [kind |-> "in", t |-> now, v |-> v])
    /\ UNCHANGED <<svcVars, keyVars, debounce, hookVars>>

SearchTimer ==
    /\ search.mounted
    /\ search.handler.due = now
    /\ search' = useDebouncedSearchHandler(search, now)
    /\ UNCHANGED <<svcVars, keyVars, debounce, events, hookVars>>

SearchUnmount ==
    /\ search.mounted
    /\ search.handler.due >= 0
    /\ search' = [search EXCEPT !.mounted = FALSE, !.handler = NoHandler]
    /\ UNCHANGED <<svcVars, keyVars, debounce, events, hookVars>>

InitSearch ==
    /\ InitService
    /\ InitKeyIdle
    /\ InitHookIdle
    /\ debounce = Unmounted
    /\ search \in {MountSearch(v) : v \in SearchTerms}
    /\ events = <<>>

NextSearch ==
    \/ SearchChange
    \/ SearchTimer
    \/ SearchUnmount
    \/ Advance

SpecSearch == InitSearch /\ [][NextSearch]_vars

\* _generateCacheKey applied to two (category, query) pairs
KeyCategories == StringsUpTo({"a", "A", "-"}, MaxCatLen)
KeyQueries == StringsUpTo(Chars, MaxQueryLen)

GenerateKeys ==
    /\ keyIn = <<>>
    /\ \E c1 \in KeyCategories, q1 \in KeyQueries,
          c2 \in KeyCategories, q2 \in KeyQueries :
          /\ keyIn' = << <<c1, q1>>, <<c2, q2>> >>
          /\ keyOut' = <<generateCacheKey(c1, q1), generateCacheKey(c2, q2)>>
    /\ UNCHANGED <<upstream, errIn, errOut>>
    /\ UNCHANGED <<svcVars, debVars, hookVars>>

\* The shared service under every interleaving of calls, settlements and
\* clears.  The clock stands still here: an expired entry is an absent one
\* to every operation, and absent entries are reached by the clears.
Next ==
    \/ FetchNewsCall
    \/ SettleOk
    \/ SettleErr
    \/ ClearCache
    \/ ClearCacheFor

Init == InitService /\ InitKeyIdle /\ InitDebounceIdle /\ InitHookIdle

Spec == Init /\ [][Next]_vars

\* The service with its clock
NextTTL ==
    \/ FetchNewsTimed
    \/ SettleOk
    \/ SettleErr
    \/ GetFromCache
    \/ ClearCacheFor
    \/ Tick

SpecTTL == Init /\ [][NextTTL]_vars

\* The key function on its own
NextKey == GenerateKeys

SpecKey == Init /\ [][NextKey]_vars

\* _mapCategoryToBackend: categoryMap[category] || category.toLowerCase()
categoryMap == Sports :> <<"s", "p", "o", "r", "t", "s">>

mapCategoryToBackend(category) ==
    IF category \in DOMAIN categoryMap THEN categoryMap[category]
    ELSE toLowerCase(category)

\* _performRequest: the URLSearchParams of the request (<<>>: not appended)
requestParams(category, query) ==
    [category |-> IF category # Null /\ category # <<>> /\ category # All
                  THEN <<mapCategoryToBackend(category)>> ELSE <<>>,
     q |-> IF query # Null /\ query # <<>> /\ trim(query) # <<>>
           THEN <<trim(query)>> ELSE <<>>]

\* The key of a pair next to the upstream request made for it
UpstreamCategories ==
    {All, toLowerCase(All), Sports, toLowerCase(Sports), <<"a">>, <<"A">>}
UpstreamQueries == StringsUpTo(Chars, MaxQueryLen)

GenerateRequests ==
    /\ keyIn = <<>>
    /\ \E c1 \in UpstreamCategories, q1 \in UpstreamQueries,
          c2 \in UpstreamCategories, q2 \in UpstreamQueries :
          /\ keyIn' = << <<c1, q1>>, <<c2, q2>> >>
          /\ keyOut' = <<generateCacheKey(c1, q1), generateCacheKey(c2, q2)>>
          /\ upstream' = <<requestParams(c1, q1), requestParams(c2, q2)>>
    /\ UNCHANGED <<errIn, errOut>>
    /\ UNCHANGED <<svcVars, debVars, hookVars>>

NextUpstream == GenerateRequests

SpecUpstream == Init /\ [][NextUpstream]_vars

\* ------------------------------------------------------------------------
\* hooks/useOptimizedNews.js
\* ------------------------------------------------------------------------
\* The hook and the service are threaded through one record w:
\*   w.h                the hook's state and refs; h.inputs counts the calls
\*                      of its handlers, h.lastInput names the last one,
\*                      h.effectFetches counts the fetches the effect made
\*                      in the last step and h.settled lists the requests
\*                      in the order they settled (all four are history,
\*                      read by no operation of the hook)
\*   w.fetches          its fetchNews calls that await a request
\*   w.cache, w.ongoingRequests, w.requests    the shared service
\* abortController is left out: its signal is never passed to the service
\* or to fetch, so abort() has no effect on any request.
MaxHookRequests == 3     \* network requests of one run of the hook
MaxPending == 2          \* the hook's fetchNews calls awaiting the service
MaxRetryCount == 7       \* handleRetry calls of one run of the backoff model
MaxHookInputs == 3       \* handler calls of one run of the full hook model

HookCategories == {All, Sports}
HookQueries == {<<>>, <<"a">>}
HookArticleCounts == {0, 1}
HookFailures == {"429", "transport"}

\* lastFetchParams.current before the first call: null
NoParams == [set |-> FALSE, category |-> <<>>, query |-> <<>>]

getErrorType(errorMessage) ==
    IF includes(errorMessage, "Rate limit exceeded")
         \/ includes(errorMessage, "429")
    THEN "RATE_LIMIT"
    ELSE IF includes(errorMessage, "authentication failed")
         \/ includes(errorMessage, "401")
    THEN "AUTH_ERROR"
    ELSE IF includes(errorMessage, "temporarily unavailable")
         \/ includes(errorMessage, "500")
    THEN "SERVER_ERROR"
    ELSE IF includes(errorMessage, "Unable to connect")
         \/ includes(errorMessage, "fetch")
    THEN "NETWORK_ERROR"
    ELSE "UNKNOWN_ERROR"

\* getCachedDataIfAvailable: isCached, then _getFromCache of a valid entry
getCachedDataIfAvailable(w, category, query, t) ==
    LET key == generateCacheKey(category, query)
    IN  IF w.h.enableCache /\ isCacheValid(w.cache, key, t)
        THEN [hit |-> TRUE, articles |-> getFromCacheValue(w.cache, key).articles]
        ELSE [hit |-> FALSE, articles |-> <<>>]

\* lastFetchParams.current has the category and query of the call f
lastParamsMatchBuggyAlways(h, f) == TRUE

lastParamsMatch(h, f) ==
    /\ h.lastFetchParams.set
    /\ h.lastFetchParams.category = f.category
    /\ h.lastFetchParams.query = f.query

\* lastFetchParams.current === params: no later call has replaced the ref
isLatestBuggyAlways(f) == TRUE

isLatest(f) == f.latest

\* fetchNews of the hook, after the await: the promise resolved with data
hookResolvedBuggyNoReset(h, f, data) ==
    LET h1 == IF isLatest(f) THEN [h EXCEPT !.articles = data.articles] ELSE h
    IN  IF lastParamsMatch(h1, f)
        THEN [h1 EXCEPT !.loading = FALSE, !.isRetrying = FALSE]
        ELSE h1

hookResolved(h, f, data) ==
    LET h1 == IF isLatest(f)
              THEN [h EXCEPT !.articles = data.articles, !.retryCount = 0]
              ELSE h
    IN  IF lastParamsMatch(h1, f)
        THEN [h1 EXCEPT !.loading = FALSE, !.isRetrying = FALSE]
        ELSE h1

\* fetchNews of the hook, after the await: the promise rejected with error
hookRejected(h, f, errorMessage) ==
    IF lastParamsMatch(h, f)
    THEN [h EXCEPT !.error = errorMessage,
                   !.errorType = getErrorType(errorMessage),
                   !.articles = IF ~f.isRetry \/ f.articlesLength = 0
                                THEN <<>> ELSE @,
                   !.loading = FALSE,
                   !.isRetrying = FALSE]
    ELSE h

\* fetchNews of the hook, before the try block: cached data is shown at
\* once, unless the call is a retry
surfaceCachedBuggyAlsoRetry(w, category, query, isRetry, t) ==
    LET cachedData == getCachedDataIfAvailable(w, category, query, t)
    IN  IF cachedData.hit
        THEN [w.h EXCEPT !.articles = cachedData.articles,
                         !.loading = FALSE,
                         !.error = Null,
                         !.errorType = Null]
        ELSE w.h

surfaceCached(w, category, query, isRetry, t) ==
    LET cachedData == getCachedDataIfAvailable(w, category, query, t)
    IN  IF cachedData.hit /\ ~isRetry
        THEN [w.h EXCEPT !.articles = cachedData.articles,
                         !.loading = FALSE,
                         !.error = Null,
                         !.errorType = Null]
        ELSE w.h

\* fetchNews of the hook, up to the await; a call that the service answers
\* from its cache has resolved before anything else can run.
\* articlesLength is the articles.length the callback was created with.
hookFetchNews(w, category, query, isRetry, articlesLength, t) ==
    LET cachedData == getCachedDataIfAvailable(w, category, query, t)
        h1 == surfaceCached(w, category, query, isRetry, t)
        h2 == [h1 EXCEPT !.isRetrying = IF isRetry THEN TRUE ELSE @,
                         !.loading = IF ~isRetry /\ ~cachedData.hit
                                     THEN TRUE ELSE @,
                         !.error = Null,
                         !.errorType = Null,
                         !.lastFetchParams =
                              [set |-> TRUE, category |-> category,
                               query |-> query]]
        f == fetchNews(w.cache, w.ongoingRequests, w.requests,
                       category, query, w.h.enableCache, t)
        call == [category |-> category, query |-> query, isRetry |-> isRetry,
                 articlesLength |-> articlesLength, req |-> f.req,
                 via |-> f.via, latest |-> TRUE]
        older == [i \in 1..Len(w.fetches) |->
                     [w.fetches[i] EXCEPT !.latest = FALSE]]
    IN  [h |-> IF f.via = "cache" THEN hookResolved(h2, call, f.value)
               ELSE h2,
         fetches |-> IF f.via = "cache" THEN older ELSE Append(older, call),
         cache |-> f.cache,
         ongoingRequests |-> f.ongoingRequests,
         requests |-> f.requests]

\* the effect on [selectedCategory, debouncedSearchTerm, fetchNews]; the
\* identity of fetchNews changes with articles.length
effectDeps(h) ==
    <<h.selectedCategory, h.search.debouncedSearchTerm, Len(h.articles)>>

\* the fetch effect returns early: the search is still being debounced
effectSkipsBuggyNever(h) == FALSE

effectSkips(h) == h.search.debouncedSearchTerm # h.searchQuery

\* the renders that follow a state change, until no effect has work left;
\* h.effectFetches counts the calls of fetchNews the effect makes
RECURSIVE flushEffects(_, _, _)
flushEffects(w, t, fuel) ==
    IF fuel = 0 \/ effectDeps(w.h) = w.h.effectDeps THEN w
    ELSE LET w1 == [w EXCEPT !.h.effectDeps = effectDeps(w.h)]
             w2 == [w1 EXCEPT !.h.effectFetches = @ + 1]
         IN  IF effectSkips(w1.h)
             THEN flushEffects(w1, t, fuel - 1)
             ELSE flushEffects(
                    hookFetchNews(w2, w1.h.selectedCategory,
                                  w1.h.search.debouncedSearchTerm, FALSE,
                                  Len(w1.h.articles), t),
                    t, fuel - 1)

render(w, t) == flushEffects([w EXCEPT !.h.effectFetches = 0], t, 4)

backoffDelayBuggyExponent(newRetryCount) ==
    IF 1000 * 2^newRetryCount < 30000 THEN 1000 * 2^newRetryCount ELSE 30000

\* Math.min(1000 * Math.pow(2, newRetryCount - 1), 30000)
backoffDelay(newRetryCount) ==
    IF 1000 * 2^(newRetryCount - 1) < 30000
    THEN 1000 * 2^(newRetryCount - 1)
    ELSE 30000

\* handleRetry: whether the retry waits for a timer
retryIsDelayed(h) == h.errorType = "RATE_LIMIT" /\ h.retryCount + 1 > 1

handleRetry(w, t) ==
    LET newRetryCount == w.h.retryCount + 1
        w1 == [w EXCEPT !.h.retryCount = newRetryCount]
    IN  IF retryIsDelayed(w.h)
        THEN w1
        ELSE hookFetchNews(w1, w.h.selectedCategory,
                           w.h.search.debouncedSearchTerm, TRUE,
                           Len(w.h.articles), t)

\* the callback handleRetry hands to setTimeout, with what it closes over;
\* id tells the timers of different calls apart
retryTimer(h, t) ==
    [id |-> h.inputs,
     due |-> t + backoffDelay(h.retryCount + 1),
     setAt |-> t,
     newRetryCount |-> h.retryCount + 1,
     category |-> h.selectedCategory,
     query |-> h.search.debouncedSearchTerm,
     articlesLength |-> Len(h.articles)]

handleCategoryChange(w, newCategory, t) ==
    LET cachedData == getCachedDataIfAvailable(
                          w, newCategory, w.h.search.debouncedSearchTerm, t)
        w1 == [w EXCEPT !.h.selectedCategory = newCategory]
    IN  IF cachedData.hit
        THEN [w1 EXCEPT !.h.articles = cachedData.articles,
                        !.h.error = Null,
                        !.h.errorType = Null]
        ELSE w1

handleSearchChange(w, newQuery, t) ==
    [w EXCEPT !.h.searchQuery = newQuery,
              !.h.search = useDebouncedSearchRender(w.h.search, newQuery, t)]

refresh(w, t) ==
    hookFetchNews([w EXCEPT !.cache = EmptyMap,
                            !.ongoingRequests =
                                clearCacheOngoing(w.ongoingRequests)],
                  w.h.selectedCategory, w.h.search.debouncedSearchTerm,
                  FALSE, Len(w.h.articles), t)

\* the calls of the hook that await request r resume in the order they
\* were made, after the service's own continuation
RECURSIVE resumeFetches(_, _, _, _, _, _)
resumeFetches(h, pending, r, ok, data, errorMessage) ==
    IF pending = <<>> THEN h
    ELSE LET f == Head(pending)
             h1 == IF f.req # r THEN h
                   ELSE IF ok THEN hookResolved(h, f, data)
                   ELSE hookRejected(h, f, errorMessage)
         IN  resumeFetches(h1, Tail(pending), r, ok, data, errorMessage)

hookSettle(w, r, ok, data, errorMessage, t) ==
    LET s == settleRequest(w.cache, w.ongoingRequests, w.requests,
                           r, ok, data, errorMessage, t)
    IN  [h |-> [resumeFetches(w.h, w.fetches, r, ok, data, errorMessage)
                   EXCEPT !.settled = Append(@, r)],
         fetches |-> SelectSeq(w.fetches, LAMBDA f : f.req # r),
         cache |-> s.cache,
         ongoingRequests |-> s.ongoingRequests,
         requests |-> s.requests]

\* the cleanups React runs when the component unmounts: useDebouncedSearch
\* clears its timer, and the hook's own cleanup aborts the AbortController,
\* which no request listens to.  No cleanup clears the timers of handleRetry.
unmount(h) ==
    [h EXCEPT !.mounted = FALSE,
              !.search.mounted = FALSE,
              !.search.handler = NoHandler]

\* React discards the state updates of an unmounted component and renders
\* it no more; a ref is a plain object and keeps what is written to it
unmounted(before, w) ==
    [w EXCEPT !.h = [before EXCEPT !.lastFetchParams = w.h.lastFetchParams,
                                   !.settled = w.h.settled]]

\* the first render of useOptimizedNews(options)
initialHook(enableCache, initialCategory, initialSearchQuery) ==
    [mounted |-> TRUE,
     enableCache |-> enableCache,
     articles |-> <<>>,
     loading |-> TRUE,
     error |-> Null,
     errorType |-> Null,
     retryCount |-> 0,
     isRetrying |-> FALSE,
     selectedCategory |-> initialCategory,
     searchQuery |-> initialSearchQuery,
     search |-> MountSearch(initialSearchQuery),
     inputs |-> 0,
     lastInput |-> "",
     effectFetches |-> 0,
     settled |-> <<>>,
     lastFetchParams |-> NoParams,
     effectDeps |-> <<>>]

World == [h |-> hook, fetches |-> fetches, cache |-> cache,
          ongoingRequests |-> ongoingRequests, requests |-> requests]

\* one step of the hook: the handler, then the renders it causes
Becomes(w) ==
    LET w1 == IF hook.mounted THEN render(w, now) ELSE unmounted(hook, w)
    IN  /\ Len(w1.requests) <= MaxHookRequests
        /\ Len(w1.fetches) <= MaxPending
        /\ hook' = w1.h
        /\ fetches' = w1.fetches
        /\ cache' = w1.cache
        /\ ongoingRequests' = w1.ongoingRequests
        /\ requests' = w1.requests

hookFrame == UNCHANGED <<ticks, calls, lastRead, keyVars, debVars>>

InitHook ==
    /\ now = 0
    /\ ticks = 0
    /\ calls = <<>>
    /\ lastRead = NoRead
    /\ InitKeyIdle
    /\ InitDebounceIdle
    /\ timers = {}
    /\ \E enableCache \in BOOLEAN :
         LET w == render([h |-> initialHook(enableCache, All, <<>>),
                          fetches |-> <<>>, cache |-> EmptyMap,
                          ongoingRequests |-> EmptyMap, requests |-> <<>>], 0)
         IN  /\ hook = w.h
             /\ fetches = w.fetches
             /\ cache = w.cache
             /\ ongoingRequests = w.ongoingRequests
             /\ requests = w.requests

\* a call of one of the handlers the hook returns
Input(w, name) == [w EXCEPT !.h.inputs = @ + 1, !.h.lastInput = name]

HandleCategoryChange == \E c \in HookCategories :
    /\ hook.mounted
    /\ hook.inputs < MaxHookInputs
    /\ Becomes(handleCategoryChange(Input(World, "handleCategoryChange"),
                                     c, now))
    /\ UNCHANGED <<now, timers>>
    /\ hookFrame

HandleSearchChange == \E q \in HookQueries :
    /\ hook.mounted
    /\ q # hook.searchQuery
    /\ hook.inputs < MaxHookInputs
    /\ Becomes(handleSearchChange(Input(World, "handleSearchChange"), q, now))
    /\ UNCHANGED <<now, timers>>
    /\ hookFrame

HandleRetryUpTo(maxInputs) ==
    /\ hook.mounted
    /\ hook.inputs < maxInputs
    /\ Becomes(handleRetry(Input(World, "handleRetry"), now))
    /\ timers' = IF retryIsDelayed(hook)
                 THEN timers \cup {retryTimer(hook, now)}
                 ELSE timers
    /\ UNCHANGED now
    /\ hookFrame

HandleRetry == HandleRetryUpTo(MaxHookInputs)

Refresh ==
    /\ hook.mounted
    /\ hook.inputs < MaxHookInputs
    /\ Becomes(refresh(Input(World, "refresh"), now))
    /\ UNCHANGED <<now, timers>>
    /\ hookFrame

HookClearCache ==
    /\ hook.mounted
    /\ cache # EmptyMap \/ ongoingRequests # EmptyMap
    /\ hook.inputs < MaxHookInputs
    /\ Becomes([Input(World, "clearCache") EXCEPT !.cache = EmptyMap,
                             !.ongoingRequests =
                                 clearCacheOngoing(ongoingRequests)])
    /\ UNCHANGED <<now, timers>>
    /\ hookFrame

HookSettleOk == \E r \in 1..Len(requests), n \in HookArticleCounts :
    /\ requests[r].status = "pending"
    /\ Becomes(hookSettle(World, r, TRUE, responseData(r, n), <<>>, now))
    /\ UNCHANGED <<now, timers>>
    /\ hookFrame

HookSettleErr == \E r \in 1..Len(requests), o \in HookFailures :
    /\ requests[r].status = "pending"
    /\ Becomes(hookSettle(World, r, FALSE, responseData(0, 0),
                          performRequestError(o), now))
    /\ UNCHANGED <<now, timers>>
    /\ hookFrame

\* the timer callback of useDebouncedSearch
HookSearchTimer ==
    /\ hook.search.handler.due = now
    /\ Becomes([World EXCEPT
                  !.h.search = useDebouncedSearchHandler(hook.search, now)])
    /\ UNCHANGED <<now, timers>>
    /\ hookFrame

\* the timer callback of handleRetry
HookRetryTimer == \E timer \in timers :
    /\ timer.due = now
    /\ Becomes(hookFetchNews(World, timer.category, timer.query, TRUE,
                             timer.articlesLength, now))
    /\ timers' = timers \ {timer}
    /\ UNCHANGED now
    /\ hookFrame

\* the component is removed from the page
Unmount ==
    /\ hook.mounted
    /\ hook' = unmount(hook)
    /\ UNCHANGED <<now, fetches, timers, cache, ongoingRequests, requests>>
    /\ hookFrame

hookDues ==
    {timer.due : timer \in timers}
        \cup (IF hook.search.handler.due >= 0
              THEN {hook.search.handler.due} ELSE {})

\* the clock advances to the next pending timer
HookAdvance ==
    /\ hookDues # {}
    /\ \A d \in hookDues : d > now
    /\ ticks < MaxTicks
    /\ now' = CHOOSE d \in hookDues : \A e \in hookDues : d <= e
    /\ ticks' = ticks + 1
    /\ UNCHANGED <<cache, ongoingRequests, requests, hookVars>>
    /\ UNCHANGED <<calls, lastRead, keyVars, debVars>>

NextHook ==
    \/ HandleCategoryChange
    \/ HandleSearchChange
    \/ HandleRetry
    \/ Refresh
    \/ HookClearCache
    \/ HookSettleOk
    \/ HookSettleErr
    \/ HookSearchTimer
    \/ HookRetryTimer
    \/ HookAdvance

SpecHook == InitHook /\ [][NextHook]_vars

\* The hook under repeated retries: one category, no search input, and the
\* Try Again handler called up to MaxRetryCount times.
HandleRetryRepeated == HandleRetryUpTo(MaxRetryCount)

NextBackoff ==
    \/ HandleRetryRepeated
    \/ HookSettleOk
    \/ HookSettleErr
    \/ HookSearchTimer
    \/ HookRetryTimer
    \/ HookAdvance

SpecBackoff == InitHook /\ [][NextBackoff]_vars

\* The hook under changes of its parameters only: category and search
\* input, the debounce timer and the settlement of the requests.
NextParams ==
    \/ HandleCategoryChange
    \/ HandleSearchChange
    \/ HookSettleOk
    \/ HookSettleErr
    \/ HookSearchTimer
    \/ HookAdvance

SpecParams == InitHook /\ [][NextParams]_vars

\* The hook with its teardown: search input, repeated retries, and the
\* unmount of the component at any moment.
NextTeardown ==
    \/ HandleSearchChange
    \/ HandleRetryRepeated
    \/ HookSettleOk
    \/ HookSettleErr
    \/ HookSearchTimer
    \/ HookRetryTimer
    \/ HookAdvance
    \/ Unmount

SpecTeardown == InitHook /\ [][NextTeardown]_vars

\* getErrorType on its own: applied to messages put together from the
\* patterns it looks for, and to the messages the service throws
MaxMessageLen == 2
ErrorFragments ==
    {"Rate limit exceeded", "429", "authentication failed", "401",
     "temporarily unavailable", "500", "Unable to connect", "fetch",
     "Something went wrong"}
ErrorMessages == StringsUpTo(ErrorFragments, MaxMessageLen)
RequestFailures ==
    {"401", "429", "500", "502", "503", "404", "transport",
     "transportLoad", "unsuccessful"}

ClassifyMessage == \E m \in ErrorMessages :
    /\ errIn' = [failure |-> "", message |-> m]
    /\ errOut' = [message |-> m, errorType |-> getErrorType(m)]
    /\ UNCHANGED <<svcVars, keyIn, keyOut, upstream, debVars, hookVars>>

ClassifyFailure == \E o \in RequestFailures :
    /\ errIn' = [failure |-> o, message |-> <<>>]
    /\ errOut' = [message |-> performRequestError(o),
                  errorType |-> getErrorType(performRequestError(o))]
    /\ UNCHANGED <<svcVars, keyIn, keyOut, upstream, debVars, hookVars>>

NextErrors ==
    \/ ClassifyMessage
    \/ ClassifyFailure

SpecErrors == Init /\ [][NextErrors]_vars

\* ========================================================================
\* Properties of the service
\* ========================================================================
settled(c) == c.state # "pending"

sameOutcome(c, d) ==
    /\ c.state = d.state
    /\ c.value = d.value
    /\ c.error = d.error

sentRequest(c) == c.via \in {"own", "join"}

\* C1: calls with the same (category, query) that are started before the
\* first of them settles, and that no valid cache entry serves, share one
\* network request and settle with the same value or the same error.
C1_DedupOneRequest ==
    \A j \in 1..Len(calls) : \A i \in calls[j].pendingSame :
        calls[j].via # "cache" =>
            /\ calls[j].req = calls[i].req
            /\ (settled(calls[i]) /\ settled(calls[j])
                    => sameOutcome(calls[i], calls[j]))

\* C2: at most one network request per cache key is pending.
C2_AtMostOnePendingPerKey ==
    \A r1, r2 \in 1..Len(requests) :
        /\ requests[r1].status = "pending"
        /\ requests[r2].status = "pending"
        /\ requests[r1].key = requests[r2].key
        => r1 = r2

\* C3: an entry stored at time T is returned, with the stored payload, by
\* every read before T + cacheTimeout, by _getFromCache and by fetchNews
\* with useCache; every read at or after T + cacheTimeout finds it absent,
\* and fetchNews then takes its result from a network request.
C3_TTLExpiry ==
    /\ lastRead.at >= 0 =>
         /\ lastRead.hit <=> lastRead.at < lastRead.entryTs + cacheTimeout
         /\ lastRead.hit =>
              lastRead.value = [articles |-> lastRead.entryArticles,
                                fromCache |-> "true"]
    /\ \A i \in 1..Len(calls) :
         calls[i].useCache /\ calls[i].entryTs >= 0 =>
           /\ calls[i].via = "cache"
                <=> calls[i].at < calls[i].entryTs + cacheTimeout
           /\ calls[i].via = "cache" =>
                calls[i].value = [articles |-> calls[i].entryArticles,
                                  fromCache |-> "true"]
           /\ calls[i].via # "cache" =>
                /\ sentRequest(calls[i])
                /\ calls[i].req \in 1..Len(requests)

C3_Witness ==
    /\ lastRead.hit
    /\ \E i, j \in 1..Len(calls) :
         /\ calls[i].via = "cache"
         /\ calls[i].at = calls[i].entryTs + cacheTimeout - 1
         /\ calls[j].useCache
         /\ calls[j].entryTs >= 0
         /\ calls[j].at = calls[j].entryTs + cacheTimeout
         /\ calls[j].via = "own"

\* C4: pairs that differ only in the case of category or query, or in the
\* whitespace around the query, get the same key; pairs whose categories
\* differ beyond case get different keys.
C4_KeyNormalization ==
    keyIn # <<>> =>
      LET c1 == keyIn[1][1]  q1 == keyIn[1][2]
          c2 == keyIn[2][1]  q2 == keyIn[2][2]
      IN  /\ (toLowerCase(c1) = toLowerCase(c2)
                /\ trim(toLowerCase(q1)) = trim(toLowerCase(q2)))
                => keyOut[1] = keyOut[2]
          /\ toLowerCase(c1) # toLowerCase(c2) => keyOut[1] # keyOut[2]

\* C5 as stated: once a fetchNews call has failed, isCached is false for
\* its key.
C5_FailedKeyNotCached ==
    [][\A i \in 1..Len(calls) :
          calls[i].state = "pending" /\ calls'[i].state = "rejected"
             => ~isCacheValid(cache', calls[i].key, now')]_vars

\* C5, amended: the failure of a request writes nothing to the cache and
\* leaves no registration for its key; no cache entry holds the result of
\* a failed request; and a call is never joined to, or served from, a
\* request that has failed: it is served from an entry that a successful
\* request wrote, or it awaits a pending network request.
C5_FailureNotCached ==
    [][/\ \A r \in 1..Len(requests) :
            requests[r].status = "pending" /\ requests'[r].status = "err"
               => /\ cache' = cache
                  /\ requests[r].key \notin DOMAIN ongoingRequests'
       /\ \A k \in DOMAIN cache' :
            \A a \in 1..Len(cache'[k].data.articles) :
               requests'[cache'[k].data.articles[a][1]].status = "ok"
       /\ Len(calls') > Len(calls) =>
            LET c == calls'[Len(calls')]
            IN  /\ c.via \in {"own", "join"}
                     => requests'[c.req].status = "pending"
                /\ c.via = "cache"
                     => \A a \in 1..Len(c.value.articles) :
                           requests'[c.value.articles[a][1]].status = "ok"
                /\ (c.via # "throw" /\ ~isCacheValid(cache, c.key, now)
                      /\ \E i \in 1..Len(calls) :
                            /\ calls[i].key = c.key
                            /\ calls[i].state = "rejected"
                            /\ \A j \in (i+1)..Len(calls) :
                                  calls[j].key # c.key)
                     => c.via = "own"]_vars

C5_Witness ==
    \E i, j \in 1..Len(calls) :
        /\ i < j
        /\ calls[i].state = "rejected"
        /\ calls[i].via = "own"
        /\ calls[j].key = calls[i].key
        /\ calls[j].via = "own"
        /\ calls[j].req # calls[i].req

\* C6: calls whose (category, query) pairs differ after normalization never
\* share a network request and are never served each other's cache entry.
normalized(c) == <<toLowerCase(c.category), trim(toLowerCase(c.query))>>

C6_DistinctParamsIndependent ==
    \A i, j \in 1..Len(calls) :
        /\ calls[i].via # "throw"
        /\ calls[j].via # "throw"
        /\ normalized(calls[i]) # normalized(calls[j])
        => /\ ~(sentRequest(calls[i]) /\ sentRequest(calls[j])
                  /\ calls[i].req = calls[j].req)
           /\ ~(calls[i].via = "own" /\ calls[j].via = "cache"
                  /\ \E a \in 1..Len(calls[j].value.articles) :
                        calls[j].value.articles[a][1] = calls[i].req)

\* the parameters _generateCacheKey is meant to use for the ones left out
defaulted(category, query) ==
    <<IF category = Null THEN <<"a", "l", "l">> ELSE category,
      IF query = Null THEN <<>> ELSE query>>

\* C17: a call of fetchNews that leaves out the category or the query is
\* looked up and requested under the key of category "all" and the blank
\* query; it never fails while the cache key is computed.
C17_OmittedParamsServed ==
    \A i \in 1..Len(calls) :
       (calls[i].category = Null \/ calls[i].query = Null) =>
          /\ calls[i].via \in {"cache", "join", "own"}
          /\ calls[i].key =
                generateCacheKey(defaulted(calls[i].category,
                                           calls[i].query)[1],
                                 defaulted(calls[i].category,
                                           calls[i].query)[2])
          /\ calls[i].error # <<"TypeError">>

\* the calls with useCache = false that await request r and were made
\* while the cache held a valid entry for their key
bypassingCalls(r) ==
    {i \in 1..Len(calls) : /\ ~calls[i].useCache
                           /\ calls[i].state = "pending"
                           /\ calls[i].req = r
                           /\ calls[i].entryTs >= 0
                           /\ calls[i].at - calls[i].entryTs < cacheTimeout}

\* the cache holds the entry it held when call i was made
entryKept(cacheMap, i) ==
    /\ calls[i].key \in DOMAIN cacheMap
    /\ cacheMap[calls[i].key].timestamp = calls[i].entryTs
    /\ cacheMap[calls[i].key].data.articles = calls[i].entryArticles

\* C18: a call with useCache = false is never answered from the cache and
\* never writes it: it awaits a network request (a new one when none is
\* pending for its key) even when a valid entry exists for its key, the
\* call changes the cache only by the sweep of expired entries, and when
\* its request settles, with a success or a failure, the valid entry that
\* was there at the call is unchanged.
C18_BypassLeavesCache ==
    [][ /\ \A i \in 1..Len(calls') :
             (~calls'[i].useCache /\ calls'[i].via # "throw") =>
                /\ calls'[i].via \in {"own", "join"}
                /\ calls'[i].state = "resolved" =>
                      calls'[i].value = requests'[calls'[i].req].data
        /\ (Len(calls') = Len(calls) + 1 /\ ~calls'[Len(calls')].useCache) =>
             /\ cache' = cleanupCache(cache, now)
             /\ calls'[Len(calls')].via = "own" =>
                   Len(requests') = Len(requests) + 1
        /\ \A r \in 1..Len(requests) :
             (requests[r].status = "pending" /\ requests'[r].status # "pending")
             => \A i \in bypassingCalls(r) :
                   entryKept(cache, i) => entryKept(cache', i)
      ]_vars

\* C18 witness: a call with useCache = false was made while the cache held
\* an entry for its key, its own request has succeeded with other articles,
\* and the entry still has the articles and the timestamp it had.
C18_Witness ==
    \E i \in 1..Len(calls) :
       /\ ~calls[i].useCache
       /\ calls[i].entryTs >= 0
       /\ calls[i].at - calls[i].entryTs < cacheTimeout
       /\ calls[i].via = "own"
       /\ calls[i].state = "resolved"
       /\ calls[i].value.articles # calls[i].entryArticles
       /\ entryKept(cache, i)

\* C20: a call answered from the cache resolves with fromCache true, and a
\* call answered by a network request, its own or one it joined, resolves
\* with fromCache false; a call that uses the cache and finds a valid entry
\* starts no request, and one that finds the entry expired, with no request
\* pending for the key, starts exactly one.
C20_FromCacheFlag ==
    [][ /\ \A i \in 1..Len(calls') :
             calls'[i].state = "resolved" =>
                /\ calls'[i].via = "cache" =>
                      calls'[i].value.fromCache = "true"
                /\ calls'[i].via \in {"own", "join"} =>
                      calls'[i].value.fromCache = "false"
        /\ (/\ Len(calls') = Len(calls) + 1
            /\ calls'[Len(calls')].useCache
            /\ calls'[Len(calls')].via # "throw") =>
             LET c == calls'[Len(calls')]
             IN  /\ isCacheValid(cache, c.key, now) =>
                       /\ c.via = "cache"
                       /\ requests' = requests
                 /\ (/\ c.key \in DOMAIN cache
                     /\ ~isCacheValid(cache, c.key, now)
                     /\ c.key \notin DOMAIN ongoingRequests) =>
                       /\ c.via = "own"
                       /\ Len(requests') = Len(requests) + 1
      ]_vars

\* C21: a request is registered in ongoingRequests under its key from the
\* moment it starts until it settles, and a registration never outlives
\* its request: every pending request is the one registered for its key,
\* and every registration is that of a pending request (so the map is
\* empty once every request has settled).
C21_RegistrationLifetime ==
    /\ \A r \in 1..Len(requests) :
          requests[r].status = "pending" =>
             /\ requests[r].key \in DOMAIN ongoingRequests
             /\ ongoingRequests[requests[r].key] = r
    /\ \A k \in DOMAIN ongoingRequests :
          requests[ongoingRequests[k]].status = "pending"

\* the cache holds a valid entry for the key with these articles
cachedAs(cacheMap, key, articles, t) ==
    /\ isCacheValid(cacheMap, key, t)
    /\ cacheMap[key].data.articles = articles

\* C24: when a call made with useCache = true resolves, whether answered
\* from the cache, by its own request or by a request it joined, the cache
\* holds a valid entry for its key with the articles it resolved with.
C24_ResolvedIsCached ==
    [][ \A i \in 1..Len(calls') :
          (/\ calls'[i].useCache
           /\ calls'[i].state = "resolved"
           /\ (i > Len(calls) \/ calls[i].state = "pending"))
          => cachedAs(cache', calls'[i].key, calls'[i].value.articles, now')
      ]_vars

\* request r was in flight when clearCache was called: it is pending and
\* no longer the request registered for its key (only clearCache, or the
\* settlement of a request it had cut loose, removes the registration of a
\* pending request)
clearedOver(r) ==
    /\ requests[r].status = "pending"
    /\ ~(/\ requests[r].key \in DOMAIN ongoingRequests
         /\ ongoingRequests[requests[r].key] = r)

\* C25: a request that was in flight when clearCache was called writes
\* nothing into the cache when it settles: the cache is then as it was,
\* an entry written by a later request included.
C25_ClearedRequestWritesNothing ==
    [][ \A r \in 1..Len(requests) :
          (clearedOver(r) /\ requests'[r].status # "pending")
          => cache' = cache
      ]_vars

\* C26: two (category, query) pairs with the same cache key are sent
\* upstream with the same category and q parameters.
C26_SameKeySameRequest ==
    (keyIn # <<>> /\ keyOut[1] = keyOut[2]) => upstream[1] = upstream[2]

\* ========================================================================
\* Properties of the debounce hooks
\* ========================================================================
\* the input in force before event k: the last change before it, or the
\* value the hook was mounted with at time 0
lastInputBefore(k) ==
    LET ins == {j \in 1..(k - 1) : events[j].kind = "in"}
    IN  IF ins = {} THEN [t |-> 0, v |-> "v0"]
        ELSE LET j == CHOOSE x \in ins : \A y \in ins : y <= x
             IN  [t |-> events[j].t, v |-> events[j].v]

inputChanges ==
    LET ins == SelectSeq(events, LAMBDA e : e.kind = "in")
    IN  [i \in 1..Len(ins) |-> <<ins[i].t, ins[i].v>>]

outputChanges ==
    LET outs == SelectSeq(events, LAMBDA e : e.kind = "out")
    IN  [i \in 1..Len(outs) |-> <<outs[i].t, outs[i].v>>]

RapidChanges == << <<0, "v1">>, <<100, "v2">>, <<150, "v3">> >>

\* C9: the output of useDebounce changes only to the value that has been
\* the input for the whole of the last DebounceDelay ms; a pending timer is
\* the one of the last input change, so every change restarts the wait; the
\* output equals the input once that timer has run; and the inputs v1 at 0,
\* v2 at 100, v3 at 150 leave the output at the initial value until 450 and
\* make it v3 then.
C9_DebounceSettling ==
    /\ \A k \in 1..Len(events) :
         events[k].kind = "out" =>
            /\ events[k].v = lastInputBefore(k).v
            /\ events[k].t >= lastInputBefore(k).t + DebounceDelay
    /\ debounce.mounted =>
         /\ debounce.handler.due >= 0 =>
              /\ debounce.handler.value = debounce.value
              /\ debounce.handler.due =
                    lastInputBefore(Len(events) + 1).t + DebounceDelay
         /\ debounce.handler.due < 0 =>
              debounce.debouncedValue = debounce.value
         /\ now > lastInputBefore(Len(events) + 1).t + DebounceDelay =>
              debounce.debouncedValue = debounce.value
         /\ inputChanges = RapidChanges /\ now < 450 =>
              debounce.debouncedValue = "v0" /\ outputChanges = <<>>
         /\ inputChanges = RapidChanges /\ now > 450 =>
              outputChanges = << <<450, "v3">> >>
                /\ debounce.debouncedValue = "v3"

C9_Witness ==
    /\ debounce.mounted
    /\ inputChanges = RapidChanges
    /\ now = 450
    /\ debounce.debouncedValue = "v3"
    /\ outputChanges = << <<450, "v3">> >>

\* C10: isSearching is true exactly when the raw search term differs from
\* the debounced search term.
C10_IsSearchingIffLag ==
    search.mounted =>
        (search.isSearching <=> search.searchTerm # search.debouncedSearchTerm)

\* ========================================================================
\* Properties of useOptimizedNews
\* ========================================================================
\* what the hook returns of its state
visibleState(h) ==
    <<h.articles, h.error, h.errorType, h.loading, h.isRetrying, h.retryCount>>

\* the calls of the hook that await request r
awaiting(r) == {i \in 1..Len(fetches) : fetches[i].req = r}

\* the call was made for other parameters than the last call of the hook
superseded(f) ==
    \/ f.category # hook.lastFetchParams.category
    \/ f.query # hook.lastFetchParams.query

rateLimitRetry ==
    /\ hook'.inputs = hook.inputs + 1
    /\ hook.errorType = "RATE_LIMIT"

\* fetchNews(category, query, true) is called in this step: the call awaits
\* the service, or the service has answered it from its cache
retryFetchMade(category, query) ==
    \/ /\ Len(fetches') = Len(fetches) + 1
       /\ fetches'[Len(fetches')].isRetry
       /\ fetches'[Len(fetches')].category = category
       /\ fetches'[Len(fetches')].query = query
    \/ /\ hook.enableCache
       /\ isCacheValid(cache, generateCacheKey(category, query), now)
       /\ Len(fetches') = Len(fetches)
       /\ hook'.lastFetchParams.category = category
       /\ hook'.lastFetchParams.query = query
       /\ hook'.retryCount = 0
       /\ hook'.articles =
             getFromCacheValue(cache, generateCacheKey(category, query)).articles

\* the retry's fetch is made in the step of handleRetry
retryImmediate ==
    /\ timers' = timers
    /\ retryFetchMade(hook.selectedCategory, hook.search.debouncedSearchTerm)

\* the retry's fetch is left to a timer of the given delay
retryAfter(k, delay) ==
    /\ fetches' = fetches
    /\ requests' = requests
    /\ \E timer \in timers' \ timers :
          /\ timers' = timers \cup {timer}
          /\ timer.newRetryCount = k
          /\ timer.due = now + delay

\* C8 as stated: the k-th consecutive retry under RATE_LIMIT waits 0, 1000,
\* 2000, 4000, 8000, 16000 ms for k = 1..6 and 30000 ms for higher k.
C8_BackoffSchedule ==
    [][ rateLimitRetry =>
          LET k == hook.retryCount + 1
              schedule == <<0, 1000, 2000, 4000, 8000, 16000>>
              delay == IF k <= 6 THEN schedule[k] ELSE 30000
          IN  IF k = 1 THEN retryImmediate ELSE retryAfter(k, delay)
      ]_vars

\* C8 amended: the k-th consecutive retry under RATE_LIMIT waits 0, 2000,
\* 4000, 8000, 16000 ms for k = 1..5 and 30000 ms for every higher k; the
\* first retry's fetch is made at once, and the fetch of a later retry is
\* made by its timer, exactly when the delay has passed.
C8_BackoffDelays ==
    [][ /\ rateLimitRetry =>
             LET k == hook.retryCount + 1
                 schedule == <<0, 2000, 4000, 8000, 16000>>
                 delay == IF k <= 5 THEN schedule[k] ELSE 30000
             IN  IF k = 1 THEN retryImmediate ELSE retryAfter(k, delay)
        /\ \A timer \in timers \ timers' :
             /\ now = timer.due
             /\ now' = now
             /\ retryFetchMade(timer.category, timer.query)
      ]_vars

\* C8 witness: the second retry waited 2000 ms and its fetch has been made
\* and failed with a rate limit, and the seventh retry waits 30000 ms.
C8_Witness ==
    /\ hook.retryCount = 7
    /\ hook.errorType = "RATE_LIMIT"
    /\ now = 2000
    /\ \A timer \in timers : timer.newRetryCount # 2
    /\ \E timer \in timers :
          /\ timer.newRetryCount = 7
          /\ timer.due = timer.setAt + 30000

\* C11: while the raw search query differs from the debounced search term,
\* the fetch effect has made no call of fetchNews in the step that led
\* here, whatever the step was (a search change, a category change during
\* the debounce window, a settlement).
C11_NoFetchMidDebounce ==
    (hook.mounted /\ hook.searchQuery # hook.search.debouncedSearchTerm)
        => hook.effectFetches = 0

\* C11 witness: the category was changed to Sports while a search change
\* was being debounced, and no fetch for Sports has been made.
C11_Witness ==
    /\ hook.mounted
    /\ hook.searchQuery # hook.search.debouncedSearchTerm
    /\ hook.lastInput = "handleCategoryChange"
    /\ hook.selectedCategory = Sports
    /\ hook.lastFetchParams.category = All
    /\ \A r \in 1..Len(requests) : requests[r].category = All

\* a step of refresh
refreshStep ==
    /\ hook'.inputs = hook.inputs + 1
    /\ hook'.lastInput = "refresh"

\* C12: every refresh() makes one new network request for the current
\* (selectedCategory, debouncedSearchTerm), and the call of refresh awaits
\* that request: it is neither answered from the cache nor joined to a
\* request that was pending before.
C12_RefreshHitsNetwork ==
    [][ refreshStep =>
          /\ Len(requests') = Len(requests) + 1
          /\ requests'[Len(requests')].status = "pending"
          /\ requests'[Len(requests')].category = hook.selectedCategory
          /\ requests'[Len(requests')].query = hook.search.debouncedSearchTerm
          /\ Len(fetches') = Len(fetches) + 1
          /\ fetches'[Len(fetches')].req = Len(requests')
          /\ fetches'[Len(fetches')].latest
          /\ ~fetches'[Len(fetches')].isRetry
      ]_vars

\* C12 witness: the first request succeeded and was cached, and refresh,
\* the only handler called, has a second request pending for the same key.
C12_Witness ==
    /\ hook.mounted
    /\ hook.enableCache
    /\ hook.inputs = 1
    /\ hook.lastInput = "refresh"
    /\ Len(requests) = 2
    /\ requests[1].status = "ok"
    /\ requests[2].status = "pending"
    /\ requests[2].key = requests[1].key
    /\ Len(fetches) = 1
    /\ fetches[1].req = 2

\* a step of handleRetry
retryStep ==
    /\ hook'.inputs = hook.inputs + 1
    /\ hook'.lastInput = "handleRetry"

\* a step in which request r settles
settles(r) ==
    /\ requests[r].status = "pending"
    /\ requests'[r].status # "pending"

\* the service holds a valid entry for the hook's current parameters
currentCached ==
    /\ hook.enableCache
    /\ isCacheValid(cache,
                    generateCacheKey(hook.selectedCategory,
                                     hook.search.debouncedSearchTerm), now)

\* C13: a call of handleRetry raises retryCount by exactly one (and the
\* count is 0 at once if the retry's fetch is answered from the cache); no
\* other step raises it; the success of the request the last call awaits
\* sets it to 0; and a failure leaves it as it is (or 0, when the fetch
\* effect runs again and is answered from the cache), so that after a
\* success followed by a failure it is 0.
C13_RetryCount ==
    [][ /\ retryStep =>
             \/ hook'.retryCount = hook.retryCount + 1
             \/ (currentCached /\ ~retryIsDelayed(hook)
                   /\ hook'.retryCount = 0)
        /\ ~retryStep =>
             (hook'.retryCount = hook.retryCount \/ hook'.retryCount = 0)
        /\ \A r \in 1..Len(requests) :
             settles(r) =>
               /\ (requests'[r].status = "ok"
                     /\ \E i \in awaiting(r) : fetches[i].latest)
                    => hook'.retryCount = 0
               /\ requests'[r].status = "err"
                    => \/ hook'.retryCount = hook.retryCount
                       \/ (hook'.effectFetches > 0 /\ hook'.retryCount = 0)
      ]_vars

\* C13 witness: the first request failed, a second request for the same
\* parameters succeeded, a category change made a third request, which
\* failed, and the retry count shown with the error is 0.
C13_Witness ==
    /\ hook.mounted
    /\ hook.inputs = 2
    /\ hook.lastInput = "handleCategoryChange"
    /\ hook.settled = <<1, 2, 3>>
    /\ requests[1].status = "err"
    /\ requests[2].status = "ok"
    /\ requests[2].category = requests[1].category
    /\ requests[3].status = "err"
    /\ requests[3].category # requests[1].category
    /\ hook.error = requests[3].error
    /\ hook.retryCount = 0

\* the last call of the hook, when it awaits request r
latestAwaiting(r) == {i \in awaiting(r) : fetches[i].latest}

\* the state the continuations of the calls awaiting r leave when r settles
\* as it does in this step, before the render that follows
afterSettle(r) ==
    hookSettle(World, r, requests'[r].status = "ok", requests'[r].data,
               requests'[r].error, now).h

\* C14: when the request that the last call of the hook awaits fails, the
\* articles stay as they are if that call was a retry and the articles
\* shown at that moment are not empty, and become the empty list in every
\* other case.
C14_ArticlesOnFailure ==
    [][ \A r \in 1..Len(requests) :
          (settles(r) /\ requests'[r].status = "err") =>
             \A i \in latestAwaiting(r) :
                IF fetches[i].isRetry /\ hook.articles # <<>>
                THEN afterSettle(r).articles = hook.articles
                ELSE afterSettle(r).articles = <<>>
      ]_vars

\* request r is the one the fetch effect made for the last category change:
\* the first request for the selected category, awaited by the last call
categoryChangeRequest(r) ==
    /\ hook.lastInput = "handleCategoryChange"
    /\ requests[r].category = hook.selectedCategory
    /\ \A j \in 1..(r - 1) : requests[j].category # requests[r].category
    /\ \E i \in latestAwaiting(r) : ~fetches[i].isRetry

\* C15: when articles are shown and the request of the fetch made for a
\* category change fails, the articles shown before stay, together with
\* the error.
C15_ArticlesKeptOnCategoryFailure ==
    [][ \A r \in 1..Len(requests) :
          (/\ settles(r)
           /\ requests'[r].status = "err"
           /\ categoryChangeRequest(r)
           /\ hook.articles # <<>>)
          => /\ afterSettle(r).articles = hook.articles
             /\ afterSettle(r).error = requests'[r].error
      ]_vars

\* C19: once the component is unmounted it writes no state and issues no
\* fetch: the unmount leaves no debounce or backoff timer pending, and from
\* then on the state the hook returned stays as it is, no timer fires, no
\* call of fetchNews is made and no network request is started.
C19_TeardownQuiet ==
    [][ /\ (hook.mounted /\ ~hook'.mounted) =>
             /\ timers' = {}
             /\ hook'.search.handler = NoHandler
        /\ ~hook.mounted =>
             /\ visibleState(hook') = visibleState(hook)
             /\ timers' = timers
             /\ Len(fetches') <= Len(fetches)
             /\ Len(requests') = Len(requests)
      ]_vars

\* the search input is at rest: no debounce timer is pending and the
\* debounced term is the search query
debounceAtRest(h) ==
    /\ h.search.handler = NoHandler
    /\ h.search.debouncedSearchTerm = h.searchQuery

\* the last call of the hook's fetchNews was for the current parameters
fetchedCurrent(h) ==
    /\ h.lastFetchParams.set
    /\ h.lastFetchParams.category = h.selectedCategory
    /\ h.lastFetchParams.query = h.search.debouncedSearchTerm

\* C22: after any handleCategoryChange and handleSearchChange calls, once
\* the debounce delay has passed with no further input, the last fetch the
\* hook issued is for the current (selectedCategory, debouncedSearchTerm).
C22_FetchAfterDebounce ==
    debounceAtRest(hook) => fetchedCurrent(hook)

\* the state a failed fetch writes
failureState(h) ==
    <<h.error, h.errorType, h.articles, h.loading, h.isRetrying>>

\* C23: when a request fails that only superseded calls await (each has
\* been followed by a later call of the hook's fetchNews, for the same or
\* for other parameters), error, errorType, articles, loading and
\* isRetrying stay as they are.
C23_SupersededFailureIgnored ==
    [][ \A r \in 1..Len(requests) :
          (/\ requests[r].status = "pending"
           /\ requests'[r].status = "err"
           /\ awaiting(r) # {}
           /\ \A i \in awaiting(r) : ~fetches[i].latest)
          => failureState(hook') = failureState(hook)
      ]_vars

\* C27: in every state of the mounted hook, loading and isRetrying are not
\* both true.
C27_LoadingXorRetrying ==
    hook.mounted => ~(hook.loading /\ hook.isRetrying)

\* C28: the settlement of a request, whatever its outcome, causes no fetch:
\* in the step in which a request settles the fetch effect makes no call of
\* fetchNews and no network request is started, so that one change of the
\* parameters costs one fetch.
C28_SettlementCausesNoFetch ==
    [][ (\E r \in 1..Len(requests) : settles(r)) =>
           /\ hook'.effectFetches = 0
           /\ Len(requests') = Len(requests)
      ]_vars

\* the call f of fetchNews is for the parameters the hook has in state h
forCurrent(h, f) ==
    /\ f.category = h.selectedCategory
    /\ f.query = h.search.debouncedSearchTerm

\* C29: every fetch is for the (selectedCategory, debouncedSearchTerm) of
\* the moment it is issued: a backoff timer that fires fetches for the
\* parameters the hook has then, and the call that is the latest after a
\* step in which a call was made is for the parameters of that state.
C29_FetchForCurrentParams ==
    [][ /\ \A timer \in timers \ timers' : forCurrent(hook, timer)
        /\ hook'.lastFetchParams # hook.lastFetchParams =>
              forCurrent(hook', hook'.lastFetchParams)
      ]_vars

\* the key of the parameters the hook has in state h
targetKey(h) ==
    generateCacheKey(h.selectedCategory, h.search.debouncedSearchTerm)

\* the hook shows the articles of the cache entry, and no error
showsCached(h, cacheMap, key) ==
    /\ h.articles = getFromCacheValue(cacheMap, key).articles
    /\ h.error = Null
    /\ h.errorType = Null

\* a step of handleCategoryChange
categoryStep ==
    /\ hook'.inputs = hook.inputs + 1
    /\ hook'.lastInput = "handleCategoryChange"

\* C30: with caching enabled and a valid entry for the target parameters,
\* a call of handleCategoryChange, and a step in which the fetch effect
\* starts a fetch, end with the cached articles shown and error and
\* errorType cleared; a fetch started by the effect or by refresh without a
\* valid entry leaves the articles shown as they are while it is pending,
\* and the fetch of a retry shows no cached data before it awaits the
\* service.
C30_CachedShownAtOnce ==
    [][ /\ (/\ categoryStep
            /\ hook.enableCache
            /\ isCacheValid(cache, targetKey(hook'), now))
           => showsCached(hook', cache, targetKey(hook'))
        /\ (/\ hook'.effectFetches > 0
            /\ hook.enableCache
            /\ isCacheValid(cache', targetKey(hook'), now'))
           => showsCached(hook', cache', targetKey(hook'))
        /\ (/\ hook'.effectFetches > 0 \/ refreshStep
            /\ \A r \in 1..Len(requests) : ~settles(r)
            /\ ~categoryStep
            /\ ~(hook.enableCache
                   /\ isCacheValid(cache', targetKey(hook'), now')))
           => hook'.articles = hook.articles
        /\ retryStep =>
              surfaceCached(World, hook.selectedCategory,
                            hook.search.debouncedSearchTerm, TRUE, now).articles
                 = hook.articles
      ]_vars

\* C30 witness: the first request filled the cache for 'All', the category
\* was changed to 'Sports', whose request failed and cleared the articles
\* (the fetch effect has made a further request for 'Sports'), and a change
\* back to 'All' then showed the cached articles and cleared the error.
C30_Witness ==
    /\ hook.mounted
    /\ hook.enableCache
    /\ hook.inputs = 2
    /\ hook.lastInput = "handleCategoryChange"
    /\ hook.selectedCategory = All
    /\ hook.settled = <<1, 2>>
    /\ Len(requests) = 3
    /\ requests[1].status = "ok"
    /\ requests[2].category = Sports
    /\ requests[2].status = "err"
    /\ requests[3].category = Sports
    /\ requests[3].status = "pending"
    /\ isCacheValid(cache, targetKey(hook), now)
    /\ hook.articles = requests[1].data.articles
    /\ hook.articles # <<>>
    /\ showsCached(hook, cache, targetKey(hook))

\* ========================================================================
\* Properties of the error kinds
\* ========================================================================
\* one of the two patterns occurs in the message
occurs(message, first, second) ==
    \E i \in 1..Len(message) : message[i] = first \/ message[i] = second

\* C16: the error kind is the first of RATE_LIMIT, AUTH_ERROR,
\* SERVER_ERROR, NETWORK_ERROR whose pattern occurs in the message, and
\* UNKNOWN_ERROR when none occurs; the failures of the service get
\* RATE_LIMIT for status 429, AUTH_ERROR for 401, SERVER_ERROR for a status
\* of 500 or more and NETWORK_ERROR for a transport failure.
C16_ErrorKinds ==
    errIn # <<>> =>
      LET m == errOut.message
          rate == occurs(m, "Rate limit exceeded", "429")
          auth == occurs(m, "authentication failed", "401")
          server == occurs(m, "temporarily unavailable", "500")
          network == occurs(m, "Unable to connect", "fetch")
      IN  /\ errOut.errorType =
                IF rate THEN "RATE_LIMIT"
                ELSE IF auth THEN "AUTH_ERROR"
                ELSE IF server THEN "SERVER_ERROR"
                ELSE IF network THEN "NETWORK_ERROR"
                ELSE "UNKNOWN_ERROR"
          /\ errIn.failure = "429" => errOut.errorType = "RATE_LIMIT"
          /\ errIn.failure = "401" => errOut.errorType = "AUTH_ERROR"
          /\ errIn.failure \in {"500", "502", "503"}
                => errOut.errorType = "SERVER_ERROR"
          /\ errIn.failure \in {"transport", "transportLoad"}
                => errOut.errorType = "NETWORK_ERROR"

====
